---- MODULE Spec2Model ----
(***************************************************************************)
(* Model of app.py, the "Hybrid AI Studio" Streamlit script.               *)
(*                                                                         *)
(* One run of the script is: the secrets check (lines 7-13), the form      *)
(* (line 89) and, when the Generate button was pressed, the handler        *)
(* (lines 91-130), which calls the text, image and video providers in      *)
(* that order.  The model takes one step per outbound provider call; the   *)
(* code that runs between two calls (returns, except clauses, st.* calls)  *)
(* is part of the step of the call before it.                              *)
(*                                                                         *)
(* Strings are sequences of tokens.  The tokens are chosen so that the     *)
(* Python test  "Error" in s  is true exactly when the token "Error"       *)
(* occurs in s (no concatenation of the other tokens spells "Error"), and  *)
(* the token " " is the only whitespace, so that str.strip() removes the   *)
(* leading and trailing " " tokens.                                        *)
(***************************************************************************)
EXTENDS Naturals, Sequences, FiniteSets

VARIABLES
    secrets,       \* st.secrets: the names of the credentials configured
    user_prompt,   \* value of the text input (line 89)
    button,        \* st.button("Generate Content") of the current script run
    cfg,           \* what each remote provider answers when called during
                   \* this script run, fixed at the channel's first call
    calls,         \* outbound calls made to each provider in this script run
    caption,       \* return value of generate_gemini_text (None before)
    page,          \* the elements the script run has written to the page
    pc             \* position of the script run

vars == <<secrets, user_prompt, button, cfg, calls, caption, page, pc>>

\* Longest prompt the user types, in tokens.
MaxPromptLen == 1

None == <<"None">>

SecretNames == {"GOOGLE_API_KEY", "HF_TOKEN"}

TextProviders == {"flash", "pro"}
ImageProviders == {"flux", "sdxl"}
Providers == TextProviders \cup ImageProviders \cup {"video"}
Channels == {"text", "image", "video"}

\* ---------------------------------------------------------------- inputs

PromptTokens == {" ", "a"}

Prompts == UNION {[1..n -> PromptTokens] : n \in 0..MaxPromptLen}

\* Caption texts a text provider answers with in a well-formed 200 body.
Captions ==
    { <<"hi">>,
      <<" ", "hi", " ">>,
      <<"Error">>,
      <<" ", "hi", " ", "Error", " ">> }

\* A provider's answer.  kind "ok": the call succeeds and text is the payload.
\* kind "non2xx": an HTTP error status, text is the response body.
\* kind "raise": the call raises a transport error, text is str(e).
\* kind "malformed": the body cannot be decoded, text is str(e) of the
\* exception the decoding raises.
TextAnswers ==
    [kind : {"ok"}, text : Captions]
        \cup [kind : {"non2xx"}, text : {<<"busy">>, <<"quota">>}]
        \cup [kind : {"raise"}, text : {<<"timeout">>}]
        \cup [kind : {"malformed"}, text : {<<"'candidates'">>}]

MediaAnswers ==
    [kind : {"ok"}, text : {<<"blobA">>, <<"blobB">>}]
        \cup [kind : {"non2xx"}, text : {<<"503">>}]
        \cup [kind : {"raise"}, text : {<<"timeout">>}]
        \cup [kind : {"malformed"}, text : {<<"unidentified">>}]

VideoAnswers ==
    [kind : {"ok"}, text : {<<"mp4">>}]
        \cup [kind : {"non2xx"}, text : {<<"503">>}]
        \cup [kind : {"raise"}, text : {<<"timeout">>}]
        \cup [kind : {"malformed"}, text : {<<"unidentified">>}]

\* Before a channel's first call of a script run nothing is known of what
\* its providers answer.
Unasked == [kind |-> "unasked", text |-> <<>>]

NoAnswers == [p \in Providers |-> Unasked]

NoCalls == [p \in Providers |-> 0]

\* ------------------------------------------------------- string functions

RECURSIVE LStrip(_)
LStrip(s) ==
    IF s # <<>> /\ Head(s) = " " THEN LStrip(Tail(s)) ELSE s

RECURSIVE RStrip(_)
RStrip(s) ==
    IF s # <<>> /\ s[Len(s)] = " " THEN RStrip(SubSeq(s, 1, Len(s) - 1)) ELSE s

\* str.strip()
Strip(s) == RStrip(LStrip(s))

\* "Error" in s
HasError(s) == \E i \in 1..Len(s) : s[i] = "Error"

\* f"Error: {response.text}"
ErrorString(body) == <<"Error", ":", " ">> \o body

\* f"Connection Error: {e}"
ConnectionErrorString(e) == <<"Connection", " ", "Error", ":", " ">> \o e

\* Mutant: the handler drops the exception text from the image failure.
ImageFailedString_Fixed(e) == <<"Image", " ", "Failed">>

\* f"Image Failed: {e}"
ImageFailedString(e) == <<"Image", " ", "Failed", ":", " ">> \o e

VideoSkippedString == <<"Video", " ", "skipped", " ", "(Server", " ", "Busy).">>

\* ------------------------------------------------------------ page output

Element(ch, kind, msg, data) ==
    [ch |-> ch, kind |-> kind, msg |-> msg, data |-> data]

Emit(el) == page' = Append(page, el)

\* ------------------------------------------------------------ the script

\* Mutant: the secrets check forgets HF_TOKEN.
ConfigError_TextOnly ==
    IF "GOOGLE_API_KEY" \notin secrets THEN <<"Missing", " ", "GOOGLE_API_KEY">>
    ELSE None

\* Lines 7-13: the first credential found missing, or None.
ConfigError ==
    IF "GOOGLE_API_KEY" \notin secrets THEN <<"Missing", " ", "GOOGLE_API_KEY">>
    ELSE IF "HF_TOKEN" \notin secrets THEN <<"Missing", " ", "HF_TOKEN">>
    ELSE None

\* Mutant: the handler does not validate the prompt.
PromptMissing_Never(p) == FALSE

\* Line 92: not user_prompt
PromptMissing(p) == p = <<>>

\* A script run from the top to its first provider call or to its end.
RunScript(pressed, prompt) ==
    IF ConfigError # None
    THEN /\ page' = <<Element("config", "error", ConfigError, <<>>)>>
         /\ pc' = "stopped"
    ELSE IF ~pressed
    THEN /\ page' = <<>>
         /\ pc' = "idle"
    ELSE IF PromptMissing(prompt)
    THEN /\ page' = <<Element("notice", "warning",
                              <<"Please enter a prompt first!">>, <<>>)>>
         /\ pc' = "idle"
    ELSE /\ page' = <<Element("notice", "info", <<"Launching">>, <<>>)>>
         /\ pc' = "text_flash"

Init ==
    /\ secrets \in SUBSET SecretNames
    /\ user_prompt = <<>>
    /\ button = FALSE
    /\ cfg = NoAnswers
    /\ calls = NoCalls
    /\ caption = None
    /\ page = <<>>
    /\ pc = "start"

\* The browser opens the page: the first script run.
Load ==
    /\ pc = "start"
    /\ RunScript(FALSE, user_prompt)
    /\ UNCHANGED <<secrets, user_prompt, button, cfg, calls, caption>>

\* The user edits the text input: a script run without the button.
EnterPrompt ==
    /\ pc = "idle"
    /\ \E p \in Prompts :
        /\ p # user_prompt
        /\ user_prompt' = p
        /\ RunScript(FALSE, p)
    /\ button' = FALSE
    /\ calls' = NoCalls
    /\ caption' = None
    /\ cfg' = NoAnswers
    /\ UNCHANGED secrets

\* The user presses Generate Content: a script run with the button.
ClickGenerate ==
    /\ pc = "idle"
    /\ cfg' = NoAnswers
    /\ button' = TRUE
    /\ calls' = NoCalls
    /\ caption' = None
    /\ RunScript(TRUE, user_prompt)
    /\ UNCHANGED <<secrets, user_prompt>>

\* ----------------------------------------------------------- text channel

Called(p) == calls' = [calls EXCEPT ![p] = @ + 1]

\* Lines 101-106: the handler receives the return value of
\* generate_gemini_text and shows it.
ShowCaption(c) ==
    /\ caption' = c
    /\ IF HasError(c)
       THEN Emit(Element("text", "error", c, <<>>))
       ELSE Emit(Element("text", "success", <<"Caption Ready">>, c))
    /\ pc' = "img_flux"

\* Lines 39-45 and 52-53: what follows the answer of gemini-1.5-flash.
AfterFlash(r) ==
    CASE r.kind = "ok" -> ShowCaption(Strip(r.text))
      [] r.kind = "non2xx" -> /\ pc' = "text_pro"
                              /\ UNCHANGED <<caption, page>>
      [] r.kind \in {"raise", "malformed"} ->
            ShowCaption(ConnectionErrorString(r.text))

\* Lines 47-53: what follows the answer of gemini-pro.  The else branch of
\* line 50 formats response.text, the body of the first response.
AfterPro(first, r) ==
    CASE r.kind = "ok" -> ShowCaption(Strip(r.text))
      [] r.kind = "non2xx" -> ShowCaption(ErrorString(first.text))
      [] r.kind \in {"raise", "malformed"} ->
            ShowCaption(ConnectionErrorString(r.text))

\* Line 37
CallFlash ==
    /\ pc = "text_flash"
    /\ Called("flash")
    /\ \E f \in TextAnswers, q \in TextAnswers :
        /\ cfg' = [cfg EXCEPT !["flash"] = f, !["pro"] = q]
        /\ AfterFlash(f)
    /\ UNCHANGED <<secrets, user_prompt, button>>

\* Line 45
CallPro ==
    /\ pc = "text_pro"
    /\ Called("pro")
    /\ AfterPro(cfg["flash"], cfg["pro"])
    /\ UNCHANGED <<secrets, user_prompt, button, cfg>>

\* ---------------------------------------------------------- image channel

\* Lines 111-114: generate_poster returned (image, model_name).
ShowPoster(img, model_name) ==
    /\ Emit(Element("image", "success", <<"Poster", model_name>>, img))
    /\ pc' = "video"

\* Mutant: generate_poster does not return after Flux and goes on to SDXL.
AfterFlux_FallsThrough(r) ==
    /\ pc' = "img_sdxl"
    /\ UNCHANGED page

\* Lines 63-66: Flux returned an image, or raised and SDXL is tried.
AfterFlux(r) ==
    IF r.kind = "ok"
    THEN ShowPoster(r.text, "Flux")
    ELSE /\ pc' = "img_sdxl"
         /\ UNCHANGED page

\* Mutant: the handler calls generate_poster outside a try block, so the
\* exception of SDXL ends the script run.
AfterSDXL_Uncaught(r) ==
    IF r.kind = "ok"
    THEN ShowPoster(r.text, "SDXL")
    ELSE /\ Emit(Element("script", "exception", r.text, <<>>))
         /\ pc' = "idle"

\* Lines 71 and 115-116: SDXL returned an image, or raised; its exception
\* leaves generate_poster and is caught by the handler.
AfterSDXL(r) ==
    IF r.kind = "ok"
    THEN ShowPoster(r.text, "SDXL")
    ELSE /\ Emit(Element("image", "error", ImageFailedString(r.text), <<>>))
         /\ pc' = "video"

\* Lines 59-62
CallFlux ==
    /\ pc = "img_flux"
    /\ Called("flux")
    /\ \E x \in MediaAnswers, s \in MediaAnswers :
        /\ cfg' = [cfg EXCEPT !["flux"] = x, !["sdxl"] = s]
        /\ AfterFlux(x)
    /\ UNCHANGED <<secrets, user_prompt, button, caption>>

\* Lines 67-70
CallSDXL ==
    /\ pc = "img_sdxl"
    /\ Called("sdxl")
    /\ AfterSDXL(cfg["sdxl"])
    /\ UNCHANGED <<secrets, user_prompt, button, cfg, caption>>

\* ---------------------------------------------------------- video channel

\* Mutant: the handler calls generate_video outside a try block, so its
\* exception ends the script run.
AfterVideo_Uncaught(r) ==
    /\ IF r.kind = "ok"
       THEN Emit(Element("video", "success", <<"Video Ready">>, r.text))
       ELSE Emit(Element("script", "exception", r.text, <<>>))
    /\ pc' = "idle"

\* Lines 122-130: the clip is shown, or the exception is caught and the
\* fixed warning is shown.
AfterVideo(r) ==
    /\ IF r.kind = "ok"
       THEN Emit(Element("video", "success", <<"Video Ready">>, r.text))
       ELSE Emit(Element("video", "warning", VideoSkippedString, <<>>))
    /\ pc' = "idle"

\* Lines 76-79
CallVideo ==
    /\ pc = "video"
    /\ Called("video")
    /\ \E v \in VideoAnswers :
        /\ cfg' = [cfg EXCEPT !["video"] = v]
        /\ AfterVideo(v)
    /\ UNCHANGED <<secrets, user_prompt, button, caption>>

\* ------------------------------------------------------------------ spec

Next ==
    \/ Load
    \/ EnterPrompt
    \/ ClickGenerate
    \/ CallFlash
    \/ CallPro
    \/ CallFlux
    \/ CallSDXL
    \/ CallVideo

Spec == Init /\ [][Next]_vars

TypeOK ==
    /\ secrets \subseteq SecretNames
    /\ user_prompt \in Prompts
    /\ button \in BOOLEAN
    /\ cfg \in [Providers -> TextAnswers \cup MediaAnswers \cup VideoAnswers
                                \cup {Unasked}]
    /\ calls \in [Providers -> 0..1]
    /\ pc \in {"start", "stopped", "idle", "text_flash", "text_pro",
               "img_flux", "img_sdxl", "video"}

\* ------------------------------------------------------------ vocabulary

\* The handler has run to its end for a non-empty prompt.
Done == pc = "idle" /\ button /\ user_prompt # <<>>

Ok(p) == cfg[p].kind = "ok"

Failed(p) == cfg[p].kind \in {"non2xx", "raise", "malformed"}

\* The page elements that report the outcome of channel ch.
Outcomes(ch) == {i \in 1..Len(page) : page[i].ch = ch}

HasOutcome(ch, kind) == \E i \in Outcomes(ch) : page[i].kind = kind

\* txt occurs in msg
ContainsText(msg, txt) ==
    \E i \in 1..(Len(msg) + 1) :
        /\ i + Len(txt) - 1 <= Len(msg)
        /\ SubSeq(msg, i, i + Len(txt) - 1) = txt

\* Channel ch shows a failure whose message contains txt.
FailureShows(ch, txt) ==
    \E i \in Outcomes(ch) :
        /\ page[i].kind \in {"error", "warning"}
        /\ ContainsText(page[i].msg, txt)

\* Every text provider that was called failed.
TextAllFailed == Failed("flash") /\ (calls["pro"] = 1 => Failed("pro"))

\* A text provider that was called answered a well-formed 200.
TextProviderSucceeded == Ok("flash") \/ (calls["pro"] = 1 /\ Ok("pro"))

ImageAllFailed == Failed("flux") /\ Failed("sdxl")

\* ------------------------------------------------------------------- C1

\* C1: when every provider of a channel with a fallback list has been
\* tried and has failed, the failure shown for the channel carries the
\* error of the last provider (gemini-pro, SDXL) and not the error of the
\* first one.
C1_LastProviderError ==
    Done =>
        /\ (Failed("flash") /\ Failed("pro") /\ calls["pro"] = 1) =>
              /\ FailureShows("text", cfg["pro"].text)
              /\ cfg["flash"].text # cfg["pro"].text =>
                    ~FailureShows("text", cfg["flash"].text)
        /\ ImageAllFailed =>
              /\ FailureShows("image", cfg["sdxl"].text)
              /\ cfg["flux"].text # cfg["sdxl"].text =>
                    ~FailureShows("image", cfg["flux"].text)

\* ------------------------------------------------------------------- C2

\* C2: a channel reports its outcome after a failure of its first provider
\* (non-2xx, raised transport error or malformed body) only when the
\* second provider has been called.
C2_NextProviderInvoked ==
    /\ (Outcomes("text") # {} /\ Failed("flash")) => calls["pro"] = 1
    /\ (Outcomes("image") # {} /\ Failed("flux")) => calls["sdxl"] = 1

\* ------------------------------------------------------------------- C3

\* C3: once the first provider of a channel has succeeded, the second one
\* is never called in that script run and the channel's result is the
\* first provider's output (the caption with surrounding whitespace
\* stripped; the Flux image labelled Flux).
C3_FirstSuccessStopsFallback ==
    /\ Ok("flash") =>
          /\ calls["flash"] = 1
          /\ calls["pro"] = 0
          /\ pc # "text_pro"
          /\ caption = Strip(cfg["flash"].text)
    /\ Ok("flux") =>
          /\ calls["flux"] = 1
          /\ calls["sdxl"] = 0
          /\ pc # "img_sdxl"
          /\ \E i \in Outcomes("image") :
                page[i] = Element("image", "success", <<"Poster", "Flux">>,
                                  cfg["flux"].text)

C3_Witness ==
    /\ Done
    /\ Ok("flash") /\ Ok("pro") /\ cfg["pro"].text # cfg["flash"].text
    /\ Strip(cfg["flash"].text) # cfg["flash"].text
    /\ Ok("flux") /\ Ok("sdxl") /\ cfg["sdxl"].text # cfg["flux"].text

\* ------------------------------------------------------------------- C4

\* C4: a press of Generate with an empty prompt ends the script run with
\* the validation warning as the only output and with no call made to any
\* provider.
C4_EmptyPromptNoCalls ==
    (button /\ user_prompt = <<>>) =>
        /\ pc = "idle"
        /\ \A p \in Providers : calls[p] = 0
        /\ page = <<Element("notice", "warning",
                            <<"Please enter a prompt first!">>, <<>>)>>

C4_Witness ==
    /\ button
    /\ user_prompt = <<>>
    /\ pc = "idle"
    /\ Len(page) = 1

\* ------------------------------------------------------------------- C5

\* C5: at the end of the handler every channel has been executed, and each
\* channel reports Success exactly when its own providers give it a result
\* to show, whatever the providers of the other two channels answered.
C5_ChannelsIndependent ==
    Done =>
        /\ calls["flash"] = 1 /\ calls["flux"] = 1 /\ calls["video"] = 1
        /\ HasOutcome("text", "success") <=>
              \/ Ok("flash") /\ ~HasError(Strip(cfg["flash"].text))
              \/ /\ cfg["flash"].kind = "non2xx"
                 /\ Ok("pro")
                 /\ ~HasError(Strip(cfg["pro"].text))
        /\ HasOutcome("image", "success") <=> (Ok("flux") \/ Ok("sdxl"))
        /\ HasOutcome("video", "success") <=> Ok("video")

C5_Witness ==
    /\ Done
    /\ cfg["flash"].kind = "non2xx" /\ Failed("pro")
    /\ ImageAllFailed
    /\ Ok("video")
    /\ HasOutcome("text", "error")
    /\ HasOutcome("image", "error")
    /\ HasOutcome("video", "success")

\* ------------------------------------------------------------------- C6

\* C6: for a non-empty prompt the handler never shows more than one
\* outcome for a channel, shows no uncaught exception, can always take its
\* next step until it has ended, and has shown exactly one outcome
\* (success, or error / warning) for each of the three channels when it
\* has ended.
C6_OneOutcomePerChannel ==
    /\ \A ch \in Channels : Cardinality(Outcomes(ch)) <= 1
    /\ \A i \in 1..Len(page) : page[i].kind # "exception"
    /\ (button /\ user_prompt # <<>> /\ pc # "idle") => ENABLED Next
    /\ Done =>
          \A ch \in Channels :
              /\ Cardinality(Outcomes(ch)) = 1
              /\ \A i \in Outcomes(ch) :
                    page[i].kind \in {"success", "error", "warning"}

C6_Witness ==
    /\ Done
    /\ cfg["flash"].kind = "non2xx"
    /\ cfg["pro"].kind = "malformed"
    /\ cfg["flux"].kind = "raise"
    /\ cfg["sdxl"].kind = "non2xx"
    /\ cfg["video"].kind = "malformed"

\* ------------------------------------------------------------------- C7

\* C7: when the first provider of a channel fails and the second one
\* answers successfully, the channel shows Success with the second
\* provider's payload (and, for the image, the label SDXL).
C7_FallbackSuccessReported ==
    Done =>
        /\ (Failed("flash") /\ Ok("pro")) =>
              \E i \in Outcomes("text") :
                  /\ page[i].kind = "success"
                  /\ page[i].data = Strip(cfg["pro"].text)
        /\ (Failed("flux") /\ Ok("sdxl")) =>
              \E i \in Outcomes("image") :
                  page[i] = Element("image", "success", <<"Poster", "SDXL">>,
                                    cfg["sdxl"].text)

\* ------------------------------------------------------------------- C8

C9_OtherChannelsRemainAvailable ==
    (secrets # {} /\ secrets # SecretNames) => pc # "stopped"

\* C9 amended: when a credential is absent the script run stops at the
\* secrets check, showing only the first missing credential
\* (GOOGLE_API_KEY before HF_TOKEN); the form is never reached and no
\* provider of any channel is called.
C9_MissingCredentialStopsAll ==
    secrets # SecretNames =>
        /\ pc \in {"start", "stopped"}
        /\ \A p \in Providers : calls[p] = 0
        /\ pc = "stopped" =>
              page = <<Element("config", "error",
                               IF "GOOGLE_API_KEY" \in secrets
                               THEN <<"Missing", " ", "HF_TOKEN">>
                               ELSE <<"Missing", " ", "GOOGLE_API_KEY">>,
                               <<>>)>>

C9_Witness ==
    /\ pc = "stopped"
    /\ secrets = {"HF_TOKEN"}
    /\ Len(page) = 1

\* ------------------------------------------------------------------ C10

\* C10: the text channel shows an error exactly when no text provider
\* answered a well-formed 200, and a caption returned by a provider is
\* shown as the caption under the success banner.
C10_TextFailureIffNoProviderSucceeded ==
    Done =>
        /\ HasOutcome("text", "error") <=> ~TextProviderSucceeded
        /\ TextProviderSucceeded =>
              \E i \in Outcomes("text") :
                  page[i] = Element("text", "success", <<"Caption Ready">>,
                                    caption)

====
